---- MODULE Spec2Model ----
(***************************************************************************)
(* Model of translate_book.py: the paragraph loop of translate_book, the   *)
(* two backend adapters translate_openai / translate_google, the section   *)
(* splitter inside translate_openai, and the saving logic of cli_main.     *)
(*                                                                         *)
(* A text is a sequence of tokens.  The two section markers "### Literal"  *)
(* and "### Poetic" and the file suffix ".docx" are one token each.  This  *)
(* is exact for Python's `in`, str.split and str.replace: none of the      *)
(* three strings overlaps itself or another one, so every occurrence in a  *)
(* Python string is a separate token here and the left-to-right,           *)
(* non-overlapping scans of split/replace visit exactly the tokens.        *)
(***************************************************************************)
EXTENDS Integers, Sequences, FiniteSets, TLC

VARIABLES
    pc,            \* position of the run: start, loop, calling, returned, save_poetic, done, failed
    provider,      \* args.provider
    mode,          \* args.mode
    output,        \* args.output
    client,        \* module-level `client` is not None
    google_creds,  \* module-level `google_creds` is not None
    original,      \* texts of original.paragraphs
    doc_literal,   \* texts of doc_literal.paragraphs
    doc_poetic,    \* texts of doc_poetic.paragraphs
    i,             \* 1-based index of the paragraph the loop is at
    calls,         \* adapter invocations made by the loop, in order
    files,         \* the file system: path -> saved document
    content,       \* splitter harness: the raw model response
    literal,       \* splitter harness: the literal string of the split
    poetic,        \* splitter harness: the poetic string of the split
    runs,          \* mode comparison harness: one run of translate_book per mode
    answer         \* mode comparison harness: the backend as a function of the request

vars == <<pc, provider, mode, output, client, google_creds, original, doc_literal,
          doc_poetic, i, calls, files, content, literal, poetic, runs, answer>>

----------------------------------------------------------------------------
(* Bounds and input sets *)

MaxParas == 3

MaxContentLen == 5

MarkLiteral == "### Literal"

MarkPoetic == "### Poetic"

DotDocx == ".docx"

WhiteSpace == {" ", "\n"}

Providers == {"openai", "google"}

Modes == {"literal", "poetic", "both"}

\* paragraph texts of the input document: empty, whitespace-only, non-empty
Texts == {<<>>, <<" ">>, <<"a">>}

\* documents of at most n paragraphs
Docs(n) == UNION {[1..k -> Texts] : k \in 0..n}

\* raw responses of the chat model that the run is driven with
Contents ==
    { <<>>,
      <<"u">>,
      <<" ", "u", "\n">>,
      <<MarkLiteral, "\n", "x", "\n", MarkPoetic, "\n", "y">>,
      <<MarkLiteral, " ", MarkPoetic, "y">>,
      <<MarkLiteral, "x", MarkPoetic>>,
      <<"z", MarkLiteral, "x", MarkPoetic, "y">>,
      <<MarkLiteral, "x">>,
      <<"x", MarkPoetic, "y">> }

\* translatedText values of the Google backend
GoogleTexts == {<<>>, <<"x">>}

\* values of the output argument
Outputs == {<<"o">>, <<"o", DotDocx>>, <<DotDocx, "o", DotDocx>>}

\* all token strings of length at most n over the set S
Strings(S, n) == UNION {[1..k -> S] : k \in 0..n}

----------------------------------------------------------------------------
(* String functions of Python, computed as Python computes them *)

RECURSIVE LStrip(_)
LStrip(s) ==
    IF s = <<>> THEN <<>>
    ELSE IF Head(s) \in WhiteSpace THEN LStrip(Tail(s)) ELSE s

RECURSIVE RStrip(_)
RStrip(s) ==
    IF s = <<>> THEN <<>>
    ELSE IF s[Len(s)] \in WhiteSpace THEN RStrip(SubSeq(s, 1, Len(s) - 1)) ELSE s

\* str.strip()
Strip(s) == RStrip(LStrip(s))

\* `tok in s`
Contains(s, tok) == \E k \in DOMAIN s : s[k] = tok

\* s.split(tok): the list of the pieces between the occurrences of tok
RECURSIVE SplitOn(_, _)
SplitOn(s, tok) ==
    IF ~Contains(s, tok) THEN <<s>>
    ELSE LET k == CHOOSE j \in DOMAIN s :
                      s[j] = tok /\ \A h \in 1..(j - 1) : s[h] # tok
         IN <<SubSeq(s, 1, k - 1)>> \o SplitOn(SubSeq(s, k + 1, Len(s)), tok)

\* s.replace(tok, rep): every occurrence of tok replaced by the string rep
RECURSIVE Replace(_, _, _)
Replace(s, tok, rep) ==
    IF s = <<>> THEN <<>>
    ELSE (IF Head(s) = tok THEN rep ELSE <<Head(s)>>) \o Replace(Tail(s), tok, rep)

----------------------------------------------------------------------------
(* translate_openai and translate_google *)

\* a splitter whose fallback fills the literal side only
split_sections_no_fallback(resp) ==
    IF Contains(resp, MarkLiteral) /\ Contains(resp, MarkPoetic)
    THEN LET parts == SplitOn(resp, MarkPoetic)
         IN [literal |-> Strip(Replace(parts[1], MarkLiteral, <<>>)),
             poetic  |-> Strip(parts[2])]
    ELSE [literal |-> Strip(resp), poetic |-> <<>>]

\* the section splitter of translate_openai: `literal` and `poetic` before the mode filter
split_sections(resp) ==
    IF Contains(resp, MarkLiteral) /\ Contains(resp, MarkPoetic)
    THEN LET parts == SplitOn(resp, MarkPoetic)
         IN [literal |-> Strip(Replace(parts[1], MarkLiteral, <<>>)),
             poetic  |-> Strip(parts[2])]
    ELSE [literal |-> Strip(resp), poetic |-> Strip(resp)]

\* a mode filter that blanks nothing
mode_filter_keep_both(pair, m) == pair

\* the last lines of translate_openai: what is returned for each mode
mode_filter(pair, m) ==
    IF m = "literal" THEN [literal |-> pair.literal, poetic |-> <<>>]
    ELSE IF m = "poetic" THEN [literal |-> <<>>, poetic |-> pair.poetic]
    ELSE pair

\* translate_openai sends a request to the chat model
openai_sends(text, cl) == Strip(text) # <<>> /\ cl

\* translate_openai(text, target_lang, mode) with `client` = cl, the model answering resp
translate_openai(text, m, cl, resp) ==
    IF ~openai_sends(text, cl)
    THEN [literal |-> text, poetic |-> text]
    ELSE mode_filter(split_sections(resp), m)

\* translate_google(text, target_lang), the service answering translatedText = resp
translate_google(text, resp) ==
    IF Strip(text) = <<>> THEN text ELSE resp

----------------------------------------------------------------------------
(* translate_book *)

\* the test without the strip: `if para.text:`
needs_translation_no_strip(text) == text # <<>>

\* `if para.text.strip():`
needs_translation(text) == Strip(text) # <<>>

\* a write that adds a paragraph instead of replacing the text of one
SetTextAppend(doc, idx, s) == Append(doc, s)

\* doc.paragraphs[idx].text = s
SetText(doc, idx, s) == [doc EXCEPT ![idx] = s]

\* a loop body whose else branch blanks the literal clone only
loop_body_blank_literal_only(prov, m, cl, dl, dp, idx, text, resp) ==
    IF Strip(text) # <<>>
    THEN IF prov = "openai"
         THEN LET r == translate_openai(text, m, cl, resp)
              IN [doc_literal |-> IF r.literal # <<>> THEN [dl EXCEPT ![idx] = r.literal] ELSE dl,
                  doc_poetic  |-> IF r.poetic # <<>> THEN [dp EXCEPT ![idx] = r.poetic] ELSE dp]
         ELSE [doc_literal |-> [dl EXCEPT ![idx] = translate_google(text, resp)],
               doc_poetic  |-> dp]
    ELSE [doc_literal |-> [dl EXCEPT ![idx] = <<>>], doc_poetic |-> dp]

\* a loop body whose Google branch looks at the mode: under "both" it fills the poetic clone too
loop_body_mode_sensitive(prov, m, cl, dl, dp, idx, text, resp) ==
    IF Strip(text) # <<>>
    THEN IF prov = "openai"
         THEN LET r == translate_openai(text, m, cl, resp)
              IN [doc_literal |-> IF r.literal # <<>> THEN [dl EXCEPT ![idx] = r.literal] ELSE dl,
                  doc_poetic  |-> IF r.poetic # <<>> THEN [dp EXCEPT ![idx] = r.poetic] ELSE dp]
         ELSE [doc_literal |-> [dl EXCEPT ![idx] = translate_google(text, resp)],
               doc_poetic  |-> IF m = "both"
                               THEN [dp EXCEPT ![idx] = translate_google(text, resp)]
                               ELSE dp]
    ELSE [doc_literal |-> [dl EXCEPT ![idx] = <<>>],
          doc_poetic  |-> [dp EXCEPT ![idx] = <<>>]]

\* the body of the paragraph loop for paragraph idx, the backend answering resp:
\* the two clones after the body has run
loop_body(prov, m, cl, dl, dp, idx, text, resp) ==
    IF needs_translation(text)
    THEN IF prov = "openai"
         THEN LET r == translate_openai(text, m, cl, resp)
              IN [doc_literal |-> IF r.literal # <<>> THEN SetText(dl, idx, r.literal) ELSE dl,
                  doc_poetic  |-> IF r.poetic # <<>> THEN SetText(dp, idx, r.poetic) ELSE dp]
         ELSE IF prov = "google"
         THEN [doc_literal |-> SetText(dl, idx, translate_google(text, resp)),
               doc_poetic  |-> dp]
         ELSE [doc_literal |-> dl, doc_poetic |-> dp]
    ELSE [doc_literal |-> SetText(dl, idx, <<>>),
          doc_poetic  |-> SetText(dp, idx, <<>>)]

\* what the adapter handed back to the loop, as the log keeps it
adapter_result(prov, m, cl, text, resp) ==
    IF prov = "openai" THEN translate_openai(text, m, cl, resp)
    ELSE [literal |-> translate_google(text, resp), poetic |-> <<>>]

\* the adapter puts a request on the wire for this paragraph
request_sent(prov, cl, text) ==
    IF prov = "openai" THEN openai_sends(text, cl) ELSE Strip(text) # <<>>

\* what the backend can answer to a request
Answers(prov) == IF prov = "openai" THEN Contents ELSE GoogleTexts

----------------------------------------------------------------------------
(* cli_main: where the documents are saved *)

literal_path(out) == Replace(out, DotDocx, <<"_literal", DotDocx>>)

poetic_path(out) == Replace(out, DotDocx, <<"_poetic", DotDocx>>)

\* doc.save(path): the file at path now holds doc
Save(fs, path, doc) ==
    [p \in (DOMAIN fs) \cup {path} |-> IF p = path THEN doc ELSE fs[p]]

NoFiles == [p \in {} |-> <<>>]

----------------------------------------------------------------------------
(* The run of cli_main *)

Harness == /\ content = <<>> /\ literal = <<>> /\ poetic = <<>>
           /\ runs = <<>> /\ answer = <<>>

Init ==
    /\ pc = "start"
    /\ provider \in Providers
    /\ mode \in Modes
    /\ output \in Outputs
    /\ client \in BOOLEAN
    /\ google_creds \in BOOLEAN
    /\ original = <<>>
    /\ doc_literal = <<>>
    /\ doc_poetic = <<>>
    /\ i = 1
    /\ calls = <<>>
    /\ files = NoFiles
    /\ Harness

Config == <<provider, mode, output, client, google_creds>>

HarnessVars == <<content, literal, poetic, runs, answer>>

\* original = Document(input_file) and the two deepcopies
Open ==
    /\ pc = "start"
    /\ \E d \in Docs(MaxParas) :
          /\ original' = d
          /\ doc_literal' = d
          /\ doc_poetic' = d
    /\ i' = 1
    /\ pc' = "loop"
    /\ UNCHANGED <<Config, calls, files, HarnessVars>>

\* Document(input_file) raises
OpenFails ==
    /\ pc = "start"
    /\ pc' = "failed"
    /\ UNCHANGED <<Config, original, doc_literal, doc_poetic, i, calls, files, HarnessVars>>

\* an empty or whitespace-only paragraph: both clones are blanked
BlankParagraph ==
    /\ pc = "loop"
    /\ i <= Len(original)
    /\ ~needs_translation(original[i])
    /\ LET b == loop_body(provider, mode, client, doc_literal, doc_poetic, i,
                          original[i], <<>>)
       IN /\ doc_literal' = b.doc_literal
          /\ doc_poetic' = b.doc_poetic
    /\ i' = i + 1
    /\ UNCHANGED <<pc, Config, original, calls, files, HarnessVars>>

\* a non-empty paragraph: the loop enters translate_openai / translate_google
CallAdapter ==
    /\ pc = "loop"
    /\ i <= Len(original)
    /\ needs_translation(original[i])
    /\ calls' = Append(calls, [idx |-> i, text |-> original[i], state |-> "pending",
                               resp |-> <<>>, literal |-> <<>>, poetic |-> <<>>])
    /\ pc' = "calling"
    /\ UNCHANGED <<Config, original, doc_literal, doc_poetic, i, files, HarnessVars>>

\* the loop body finishes with the adapter's result, the backend having answered resp
Finish(resp) ==
    LET b == loop_body(provider, mode, client, doc_literal, doc_poetic, i,
                       original[i], resp)
        r == adapter_result(provider, mode, client, original[i], resp)
    IN /\ doc_literal' = b.doc_literal
       /\ doc_poetic' = b.doc_poetic
       /\ calls' = [calls EXCEPT ![Len(calls)] =
                       [@ EXCEPT !.state = "returned", !.resp = resp,
                                 !.literal = r.literal, !.poetic = r.poetic]]
       /\ i' = i + 1
       /\ pc' = "loop"
       /\ UNCHANGED <<Config, original, files, HarnessVars>>

\* the backend answers the request and the result is written into the clones
BackendReturns ==
    /\ pc = "calling"
    /\ request_sent(provider, client, original[i])
    /\ \E resp \in Answers(provider) : Finish(resp)

\* translate_openai without a client: it returns at once, nothing is sent
PassThrough ==
    /\ pc = "calling"
    /\ ~request_sent(provider, client, original[i])
    /\ Finish(<<>>)

\* the request (or, for Google, the construction of the client) raises
BackendRaises ==
    /\ pc = "calling"
    /\ request_sent(provider, client, original[i])
    /\ calls' = [calls EXCEPT ![Len(calls)].state = "raised"]
    /\ pc' = "failed"
    /\ UNCHANGED <<Config, original, doc_literal, doc_poetic, i, files, HarnessVars>>

\* return doc_literal, doc_poetic
Return ==
    /\ pc = "loop"
    /\ i > Len(original)
    /\ pc' = "returned"
    /\ UNCHANGED <<Config, original, doc_literal, doc_poetic, i, calls, files, HarnessVars>>

\* doc_literal.save(args.output.replace(".docx", "_literal.docx"))
SaveLiteral ==
    /\ pc = "returned"
    /\ provider = "openai"
    /\ mode \in {"literal", "both"}
    /\ files' = Save(files, literal_path(output), doc_literal)
    /\ pc' = IF mode = "both" THEN "save_poetic" ELSE "done"
    /\ UNCHANGED <<Config, original, doc_literal, doc_poetic, i, calls, HarnessVars>>

\* doc_poetic.save(args.output.replace(".docx", "_poetic.docx"))
SavePoetic ==
    /\ provider = "openai"
    /\ \/ pc = "returned" /\ mode = "poetic"
       \/ pc = "save_poetic"
    /\ files' = Save(files, poetic_path(output), doc_poetic)
    /\ pc' = "done"
    /\ UNCHANGED <<Config, original, doc_literal, doc_poetic, i, calls, HarnessVars>>

\* doc_literal.save(args.output)
SaveDirect ==
    /\ pc = "returned"
    /\ provider # "openai"
    /\ files' = Save(files, output, doc_literal)
    /\ pc' = "done"
    /\ UNCHANGED <<Config, original, doc_literal, doc_poetic, i, calls, HarnessVars>>

\* a save raises: nothing is written by it, the process ends with the error
SaveFails ==
    /\ pc \in {"returned", "save_poetic"}
    /\ pc' = "failed"
    /\ UNCHANGED <<Config, original, doc_literal, doc_poetic, i, calls, files, HarnessVars>>

Next ==
    \/ Open
    \/ OpenFails
    \/ BlankParagraph
    \/ CallAdapter
    \/ BackendReturns
    \/ PassThrough
    \/ BackendRaises
    \/ Return
    \/ SaveLiteral
    \/ SavePoetic
    \/ SaveDirect
    \/ SaveFails

Spec == Init /\ [][Next]_vars

----------------------------------------------------------------------------
(* The splitter alone, on every response up to MaxContentLen tokens *)

SplitTokens == {MarkLiteral, MarkPoetic, " ", "x", "y"}

InitSplit ==
    /\ pc = "split"
    /\ content \in Strings(SplitTokens, MaxContentLen)
    /\ literal = <<>>
    /\ poetic = <<>>
    /\ provider = "openai" /\ mode = "both" /\ output = <<>>
    /\ client = TRUE /\ google_creds = FALSE
    /\ original = <<>> /\ doc_literal = <<>> /\ doc_poetic = <<>>
    /\ i = 1 /\ calls = <<>> /\ files = NoFiles
    /\ runs = <<>> /\ answer = <<>>

\* content = resp.choices[0].message.content is split into literal and poetic
SplitResponse ==
    /\ pc = "split"
    /\ literal' = split_sections(content).literal
    /\ poetic' = split_sections(content).poetic
    /\ pc' = "split_done"
    /\ UNCHANGED <<Config, original, doc_literal, doc_poetic, i, calls, files,
                   content, runs, answer>>

NextSplit == SplitResponse

SpecSplit == InitSplit /\ [][NextSplit]_vars

\* the run of cli_main, or the splitter on its own
InitFallback == Init \/ InitSplit

NextFallback == Next \/ NextSplit

SpecFallback == InitFallback /\ [][NextFallback]_vars

----------------------------------------------------------------------------
(* The same document translated by the Google provider once under each mode, *)
(* the backend answering equal requests equally                              *)

ModeTexts == Texts \cup {<<"b">>}

ModeDocs(n) == UNION {[1..k -> ModeTexts] : k \in 0..n}

\* an answer of the backend: a translatedText, or an error
ModeAnswers == {[ok |-> TRUE, text |-> g] : g \in GoogleTexts}
                   \cup {[ok |-> FALSE, text |-> <<>>]}

ModeRequests == {t \in ModeTexts : Strip(t) # <<>>}

InitModes ==
    /\ pc = "modes"
    /\ provider = "google"
    /\ original \in ModeDocs(MaxParas)
    /\ answer \in [ModeRequests -> ModeAnswers]
    /\ runs = [m \in Modes |-> [pc |-> "loop", i |-> 1, doc_literal |-> original,
                                doc_poetic |-> original, calls |-> <<>>]]
    /\ mode = "both" /\ output = <<>>
    /\ client = FALSE /\ google_creds = TRUE
    /\ doc_literal = <<>> /\ doc_poetic = <<>>
    /\ i = 1 /\ calls = <<>> /\ files = NoFiles
    /\ content = <<>> /\ literal = <<>> /\ poetic = <<>>

ModeFrame == UNCHANGED <<pc, Config, original, doc_literal, doc_poetic, i, calls, files,
                         content, literal, poetic, answer>>

\* the run under mode m blanks an empty paragraph
ModeBlank(m) ==
    LET r == runs[m]
    IN /\ r.pc = "loop"
       /\ r.i <= Len(original)
       /\ ~needs_translation(original[r.i])
       /\ LET b == loop_body(provider, m, client, r.doc_literal, r.doc_poetic, r.i,
                             original[r.i], <<>>)
          IN runs' = [runs EXCEPT ![m] = [r EXCEPT !.doc_literal = b.doc_literal,
                                                    !.doc_poetic = b.doc_poetic,
                                                    !.i = r.i + 1]]
       /\ ModeFrame

\* the run under mode m translates a non-empty paragraph, or the backend raises
ModeTranslate(m) ==
    LET r == runs[m]
    IN /\ r.pc = "loop"
       /\ r.i <= Len(original)
       /\ needs_translation(original[r.i])
       /\ LET a == answer[original[r.i]]
              b == loop_body(provider, m, client, r.doc_literal, r.doc_poetic, r.i,
                             original[r.i], a.text)
              c == Append(r.calls, [idx |-> r.i, text |-> original[r.i]])
          IN runs' = [runs EXCEPT ![m] =
                        IF a.ok
                        THEN [r EXCEPT !.doc_literal = b.doc_literal,
                                       !.doc_poetic = b.doc_poetic,
                                       !.i = r.i + 1, !.calls = c]
                        ELSE [r EXCEPT !.pc = "failed", !.calls = c]]
       /\ ModeFrame

\* the run under mode m returns its two documents
ModeReturn(m) ==
    LET r == runs[m]
    IN /\ r.pc = "loop"
       /\ r.i > Len(original)
       /\ runs' = [runs EXCEPT ![m].pc = "returned"]
       /\ ModeFrame

NextModes ==
    \/ \E m \in Modes : ModeBlank(m)
    \/ \E m \in Modes : ModeTranslate(m)
    \/ \E m \in Modes : ModeReturn(m)

SpecModes == InitModes /\ [][NextModes]_vars

----------------------------------------------------------------------------
(* Vocabulary of the properties *)

\* the paragraph text is empty or whitespace-only
Blank(t) == Strip(t) = <<>>

\* translate_book has returned its two documents
Returned == pc \in {"returned", "save_poetic", "done"}

Paras == 1..Len(original)

\* the log entry of the adapter invocation for paragraph j
CallFor(j) == calls[CHOOSE k \in DOMAIN calls : calls[k].idx = j]

Called(j) == \E k \in DOMAIN calls : calls[k].idx = j

HasMarker(s) == Contains(s, MarkLiteral) \/ Contains(s, MarkPoetic)

\* s reads  lead "### Literal" L "### Poetic" P  with no marker in lead, L or P
Sectioned(s) ==
    \E a, b \in DOMAIN s :
        /\ a < b
        /\ s[a] = MarkLiteral
        /\ s[b] = MarkPoetic
        /\ \A k \in DOMAIN s : k \notin {a, b} =>
              s[k] \notin {MarkLiteral, MarkPoetic}

PosLiteral(s) == CHOOSE a \in DOMAIN s : s[a] = MarkLiteral

PosPoetic(s) == CHOOSE b \in DOMAIN s : s[b] = MarkPoetic

LeadOf(s) == SubSeq(s, 1, PosLiteral(s) - 1)

LiteralSectionOf(s) == SubSeq(s, PosLiteral(s) + 1, PosPoetic(s) - 1)

PoeticSectionOf(s) == SubSeq(s, PosPoetic(s) + 1, Len(s))

MissingMarker(s) == ~Contains(s, MarkLiteral) \/ ~Contains(s, MarkPoetic)

\* the scenario document ["Hello world", "", "Goodbye"]
ScenarioDoc == <<(<<"a">>), <<>>, (<<"a">>)>>

----------------------------------------------------------------------------
(* C1: in every state of a run, each clone has exactly as many paragraphs as *)
(* the source, the paragraphs the loop has not reached still hold the source *)
(* text, and a paragraph the loop has passed holds, at its own index, the    *)
(* blank, the text the adapter returned for that index, or the source text.  *)
ThmC1_ParagraphCount ==
    /\ Len(doc_literal) = Len(original)
    /\ Len(doc_poetic) = Len(original)
    /\ \A j \in Paras :
          IF j >= i
          THEN doc_literal[j] = original[j] /\ doc_poetic[j] = original[j]
          ELSE IF Blank(original[j])
          THEN doc_literal[j] = <<>> /\ doc_poetic[j] = <<>>
          ELSE /\ Called(j)
               /\ doc_literal[j] \in {original[j], CallFor(j).literal}
               /\ doc_poetic[j] \in {original[j], CallFor(j).poetic}

WitC1_ParagraphCount ==
    /\ pc = "done"
    /\ Len(original) = 3
    /\ Len(doc_literal) = 3
    /\ Len(doc_poetic) = 3
    /\ \A j \in Paras : doc_literal[j] # original[j]

(* C2: when translate_book has returned, every paragraph whose source text  *)
(* is empty or whitespace-only has the text "" in both clones, whatever the *)
(* provider and the mode.                                                   *)
ThmC2_BlankStaysBlank ==
    Returned =>
        \A j \in Paras :
            Blank(original[j]) => doc_literal[j] = <<>> /\ doc_poetic[j] = <<>>

WitC2_BlankStaysBlank ==
    /\ pc = "done"
    /\ \E j \in Paras :
          /\ original[j] = <<" ">>
          /\ doc_literal[j] = <<>>
          /\ doc_poetic[j] = <<>>
    /\ \E j \in Paras : ~Blank(original[j])

(* C3: for a response  lead "### Literal" L "### Poetic" P  (no marker in   *)
(* lead, L or P) the splitter yields literal = L trimmed and poetic = P     *)
(* trimmed, the lead appearing in neither.                                  *)
ClaimC3_SplitDropsLead ==
    (pc = "split_done" /\ Sectioned(content)) =>
        /\ literal = Strip(LiteralSectionOf(content))
        /\ poetic = Strip(PoeticSectionOf(content))

(* C4: whenever a response lacks one of the two markers, the splitter      *)
(* yields the whole trimmed response as literal and as poetic; in a run the *)
(* literal and poetic strings of such a call are the trimmed response (what *)
(* the mode keeps of them), and with mode=both each call is split on its    *)
(* own: a marked response without lead gives its two trimmed sections, an   *)
(* unmarked one gives the trimmed response on both sides, and the clones    *)
(* hold these at the paragraph's index.                                     *)
ThmC4_FallbackPerCall ==
    /\ (pc = "split_done" /\ MissingMarker(content)) =>
          literal = Strip(content) /\ poetic = Strip(content)
    /\ (pc # "split_done" /\ provider = "openai" /\ client) =>
        \A k \in DOMAIN calls :
            LET c == calls[k]
                R == Strip(c.resp)
            IN c.state = "returned" =>
                 /\ MissingMarker(c.resp) =>
                       /\ mode \in {"literal", "both"} => c.literal = R
                       /\ mode \in {"poetic", "both"} => c.poetic = R
                       /\ (mode = "both" /\ R # <<>>) =>
                             doc_literal[c.idx] = R /\ doc_poetic[c.idx] = R
                 /\ (mode = "both" /\ Sectioned(c.resp) /\ Blank(LeadOf(c.resp))) =>
                       /\ c.literal = Strip(LiteralSectionOf(c.resp))
                       /\ c.poetic = Strip(PoeticSectionOf(c.resp))
                       /\ c.literal # <<>> => doc_literal[c.idx] = c.literal
                       /\ c.poetic # <<>> => doc_poetic[c.idx] = c.poetic

WitC4_FallbackPerCall ==
    /\ pc = "done"
    /\ provider = "openai" /\ client /\ mode = "both"
    /\ original = ScenarioDoc
    /\ Len(calls) = 2
    /\ calls[1].resp = <<MarkLiteral, "\n", "x", "\n", MarkPoetic, "\n", "y">>
    /\ calls[2].resp = <<"u">>
    /\ doc_literal = <<(<<"x">>), <<>>, (<<"u">>)>>
    /\ doc_poetic = <<(<<"y">>), <<>>, (<<"u">>)>>

(* C5, as claimed: in an openai run with mode=literal that has returned,    *)
(* every non-empty source paragraph has, in the literal clone, the          *)
(* non-empty translated text the adapter returned, and in the poetic clone  *)
(* its cloned source text.                                                  *)
ClaimC5_LiteralAlwaysTranslated ==
    (Returned /\ provider = "openai" /\ mode = "literal") =>
        \A j \in Paras :
            ~Blank(original[j]) =>
                /\ CallFor(j).literal # <<>>
                /\ doc_literal[j] = CallFor(j).literal
                /\ doc_poetic[j] = original[j]

(* C5, amended: in an openai run with mode=literal that has returned, for   *)
(* every non-empty source paragraph the literal clone's paragraph is        *)
(* non-empty: it is the literal text the adapter returned when that text is *)
(* non-empty and the cloned source text when it is empty; the poetic        *)
(* clone's paragraph holds its cloned source text.                          *)
ThmC5_ModeLiteral ==
    (Returned /\ provider = "openai" /\ mode = "literal") =>
        \A j \in Paras :
            ~Blank(original[j]) =>
                /\ doc_literal[j] # <<>>
                /\ doc_literal[j] = IF CallFor(j).literal # <<>>
                                    THEN CallFor(j).literal
                                    ELSE original[j]
                /\ doc_poetic[j] = original[j]

WitC5_ModeLiteral ==
    /\ pc = "done"
    /\ provider = "openai" /\ client /\ mode = "literal"
    /\ \E j \in Paras :
          /\ ~Blank(original[j])
          /\ CallFor(j).resp = <<MarkLiteral, "\n", "x", "\n", MarkPoetic, "\n", "y">>
          /\ doc_literal[j] = <<"x">>
          /\ doc_poetic[j] = original[j]
    /\ \E j \in Paras :
          /\ ~Blank(original[j])
          /\ CallFor(j).literal = <<>>
          /\ doc_literal[j] = original[j]

(* C6: a run that ended in an error has written no output file.             *)
ClaimC6_AtomicFailure ==
    pc = "failed" => DOMAIN files = {}

(* C7: with the credentials of the selected backend absent, translate_book  *)
(* does not return for a document that has a non-empty paragraph.           *)
ClaimC7_NoSilentPassThrough ==
    LET absent == \/ provider = "openai" /\ ~client
                  \/ provider = "google" /\ ~google_creds
    IN (absent /\ Returned) => \A j \in Paras : Blank(original[j])

(* C8: Google runs of the same document against the same backend under any  *)
(* two modes agree: at the same paragraph they are in the same state (same  *)
(* two documents, same calls issued), and when both have ended they ended   *)
(* alike.                                                                   *)
ThmC8_GoogleIgnoresMode ==
    pc = "modes" =>
        \A m1, m2 \in Modes :
            LET ended(m) == runs[m].pc \in {"returned", "failed"}
            IN /\ (runs[m1].i = runs[m2].i /\ runs[m1].pc = runs[m2].pc) =>
                      runs[m1] = runs[m2]
               /\ (ended(m1) /\ ended(m2)) => runs[m1] = runs[m2]

WitC8_GoogleIgnoresMode ==
    /\ pc = "modes"
    /\ \A m \in Modes : runs[m].pc = "returned"
    /\ Len(original) = 3
    /\ \E j \in Paras : original[j] = <<"a">>
    /\ \E j \in Paras : original[j] = <<"b">>
    /\ answer[<<"a">>].text # answer[<<"b">>].text
    /\ runs["literal"].doc_literal # original
    /\ Len(runs["both"].calls) = 2

(* C9: the adapter is invoked once for each non-empty paragraph the loop    *)
(* has reached and never for an empty or whitespace-only one, in strictly   *)
(* increasing index order; only the latest invocation can be outstanding,   *)
(* every earlier one has returned and its result is in the clones at its    *)
(* index; no document is returned before the last paragraph is processed;   *)
(* for ["Hello world", "", "Goodbye"] a returned run made 2 calls.          *)
ThmC9_SequentialCalls ==
    /\ \A k \in DOMAIN calls :
          /\ calls[k].idx \in Paras
          /\ ~Blank(original[calls[k].idx])
          /\ calls[k].text = original[calls[k].idx]
          /\ k < Len(calls) => calls[k].idx < calls[k + 1].idx
          /\ k < Len(calls) => calls[k].state = "returned"
          /\ calls[k].state = "returned" =>
                /\ calls[k].idx < i
                /\ provider = "google" => doc_literal[calls[k].idx] = calls[k].literal
                /\ (provider = "openai" /\ calls[k].literal # <<>>) =>
                       doc_literal[calls[k].idx] = calls[k].literal
                /\ (provider = "openai" /\ calls[k].poetic # <<>>) =>
                       doc_poetic[calls[k].idx] = calls[k].poetic
          /\ calls[k].state # "returned" => calls[k].idx = i
    /\ \A j \in Paras : (j < i /\ ~Blank(original[j])) => Called(j)
    /\ pc = "calling" <=> (calls # <<>> /\ calls[Len(calls)].state = "pending")
    /\ Returned =>
          /\ i = Len(original) + 1
          /\ Len(calls) = Cardinality({j \in Paras : ~Blank(original[j])})
    /\ (Returned /\ original = ScenarioDoc) => Len(calls) = 2

WitC9_SequentialCalls ==
    /\ pc = "done"
    /\ original = ScenarioDoc
    /\ Len(calls) = 2
    /\ calls[1].idx = 1
    /\ calls[2].idx = 3
    /\ calls[2].state = "returned"

(* C10: a finished CLI run with provider=openai and mode=both has left two  *)
(* distinct files, one holding the literal document and one the poetic      *)
(* document; a finished run with provider=google has written exactly one    *)
(* file, at the output path.                                                *)
ClaimC10_TwoDistinctFiles ==
    pc = "done" =>
        /\ (provider = "openai" /\ mode = "both") =>
              \E p, q \in DOMAIN files :
                  p # q /\ files[p] = doc_literal /\ files[q] = doc_poetic
        /\ provider = "google" =>
              DOMAIN files = {output} /\ files[output] = doc_literal

====
